---- MODULE Spec2Model ----
(***************************************************************************)
(* Category graph of a wiki: build from dump records (db/tree.py),         *)
(* pruning, percentile, snapshot, export; the SQLite staging tables        *)
(* (db/database.py); the line source and the category-links extractor     *)
(* (db/assets.py).                                                         *)
(*                                                                         *)
(* networkx keeps a DiGraph as three insertion-ordered dicts: _node        *)
(* (id -> attribute dict), _succ and _pred (id -> dict of neighbours).     *)
(* The order of those dicts decides what the code does (which predecessor  *)
(* comes first, which node a loop meets first), so the model keeps it:     *)
(* a graph is a record                                                     *)
(*    order : the keys of _node, in insertion order                        *)
(*    attr  : id -> attribute dict ({} is EmptyAttributes)                 *)
(*    succ  : id -> the keys of _succ[id], in insertion order              *)
(*    pred  : id -> the keys of _pred[id], in insertion order              *)
(* with attr, succ and pred at their defaults for ids that are no node.    *)
(***************************************************************************)
EXTENDS Integers, Sequences, FiniteSets, TLC

\* ---------------------------------------------------------------- bounds
\* Page ids are 1..MaxId.
MaxId == 3
\* Length of the category-links stream.
MaxLinks == 3
\* The "pages" field of an aggregate category record, and its largest
\* "subcategories" field (each subcategory is counted as a page).
MaxPages == 3
MaxSubcats == 2
\* Most ids a caller's predicate excludes by id (or by name).
MaxExcluded == 1
\* Largest depth handed to remove_past_depth.
MaxDepth == 2
\* Lines one asset yields, and rows in one line.
MaxLines == 2
MaxRows == 2

Ids == 1..MaxId

\* Page titles: the title of page i is NamePool[i] (titles are unique in a
\* namespace of the dump: page has a unique index on namespace, title).
NamePool == <<"A", "B", "C", "D", "E", "F">>

Names == {NamePool[i] : i \in Ids}

\* The percentiles asked for (main.py: an int, default 75).
Percentiles == {0, 25, 50, 75, 100}

Range(s) == {s[i] : i \in DOMAIN s}

\* ------------------------------------------------------- attribute dicts
\* CategoryAttributes, and the empty dict a node gets from add_edges_from.
EmptyAttributes == [keys |-> {}, name |-> "", page_count |-> 0]

CategoryAttributes(name, page_count) ==
    [keys |-> {"name", "page_count"}, name |-> name, page_count |-> page_count]

\* ----------------------------------------------------------- nx.DiGraph
EmptyGraph ==
    [order |-> <<>>,
     attr  |-> [i \in Ids |-> EmptyAttributes],
     succ  |-> [i \in Ids |-> <<>>],
     pred  |-> [i \in Ids |-> <<>>]]

nodes(G) == Range(G.order)

successors(G, n) == G.succ[n]

predecessors(G, n) == G.pred[n]

edges(G) == {<<u, v>> \in nodes(G) \X Ids : v \in Range(G.succ[u])}

\* A dict keeps a key's place when the key is set again.
dict_set(keys, k) == IF k \in Range(keys) THEN keys ELSE Append(keys, k)

dict_del(keys, k) == SelectSeq(keys, LAMBDA x : x # k)

add_node(G, n) ==
    IF n \in nodes(G) THEN G ELSE [G EXCEPT !.order = Append(@, n)]

RECURSIVE add_nodes_from(_, _)
add_nodes_from(G, ns) ==
    IF ns = <<>> THEN G ELSE add_nodes_from(add_node(G, Head(ns)), Tail(ns))

add_edge(G, u, v) ==
    LET G1 == add_node(add_node(G, u), v)
    IN  [G1 EXCEPT !.succ[u] = dict_set(@, v), !.pred[v] = dict_set(@, u)]

RECURSIVE add_edges_from(_, _)
add_edges_from(G, ebunch) ==
    IF ebunch = <<>> THEN G
    ELSE add_edges_from(add_edge(G, Head(ebunch)[1], Head(ebunch)[2]), Tail(ebunch))

remove_node_leaving_pred(G, n) ==
    [order |-> dict_del(G.order, n),
     attr  |-> [G.attr EXCEPT ![n] = EmptyAttributes],
     succ  |-> [m \in Ids |-> IF m = n THEN <<>> ELSE dict_del(G.succ[m], n)],
     pred  |-> [m \in Ids |-> IF m = n THEN <<>> ELSE G.pred[m]]]

remove_node(G, n) ==
    [order |-> dict_del(G.order, n),
     attr  |-> [G.attr EXCEPT ![n] = EmptyAttributes],
     succ  |-> [m \in Ids |-> IF m = n THEN <<>> ELSE dict_del(G.succ[m], n)],
     pred  |-> [m \in Ids |-> IF m = n THEN <<>> ELSE dict_del(G.pred[m], n)]]

RECURSIVE remove_nodes_from(_, _)
remove_nodes_from(G, ns) ==
    IF ns = <<>> THEN G
    ELSE remove_nodes_from(IF Head(ns) \in nodes(G) THEN remove_node(G, Head(ns)) ELSE G,
                           Tail(ns))

\* ------------------------------------------------ remove_node_reconstruct
\* tuple((p, s) for p in predecessors for s in successors): successors is
\* ONE iterator, made before the loop; the first p runs it to its end and
\* every later p finds it exhausted.
new_edges_reversed(G, category_id) ==
    LET ps == predecessors(G, category_id)
        ss == successors(G, category_id)
    IN  IF ps = <<>> THEN <<>>
        ELSE [i \in 1..Len(ss) |-> <<ss[i], Head(ps)>>]

new_edges(G, category_id) ==
    LET ps == predecessors(G, category_id)
        ss == successors(G, category_id)
    IN  IF ps = <<>> THEN <<>>
        ELSE [i \in 1..Len(ss) |-> <<Head(ps), ss[i]>>]

remove_node_reconstruct(G, category_id) ==
    remove_node(add_edges_from(G, new_edges(G, category_id)), category_id)

\* ------------------------------------------------------------ components
\* nx.weakly_connected_components: for v in G, in node order, every v not
\* yet seen starts a component: all nodes a breadth-first walk reaches
\* from v over successors and predecessors alike.
neighbours(G, v) == Range(G.succ[v]) \cup Range(G.pred[v])

RECURSIVE plain_bfs(_, _, _)
plain_bfs(G, seen, frontier) ==
    IF frontier = {} THEN seen
    ELSE LET reached == UNION {neighbours(G, v) : v \in frontier} \ seen
         IN  plain_bfs(G, seen \cup reached, reached)

position(G, n) == CHOOSE i \in DOMAIN G.order : G.order[i] = n

components(G) ==
    LET starts == SelectSeq(G.order, LAMBDA v :
                     \A u \in nodes(G) :
                        position(G, u) < position(G, v) => v \notin plain_bfs(G, {u}, {u}))
    IN  [i \in DOMAIN starts |-> plain_bfs(G, {starts[i]}, {starts[i]})]

keep_only_nodes_removing_them(G, ns) ==
    remove_nodes_from(G, SelectSeq(G.order, LAMBDA n : n \in ns))

\* to_remove = [n for n in self.nodes if n not in nodes]
keep_only_nodes(G, ns) ==
    remove_nodes_from(G, SelectSeq(G.order, LAMBDA n : n \notin ns))

max_by_len_last(cs) ==
    cs[CHOOSE i \in DOMAIN cs :
          /\ \A j \in DOMAIN cs : Cardinality(cs[j]) <= Cardinality(cs[i])
          /\ \A j \in DOMAIN cs : j > i => Cardinality(cs[j]) < Cardinality(cs[i])]

\* max(components, key=len): the first of the components that no other
\* one exceeds in length.
max_by_len(cs) ==
    cs[CHOOSE i \in DOMAIN cs :
          /\ \A j \in DOMAIN cs : Cardinality(cs[j]) <= Cardinality(cs[i])
          /\ \A j \in DOMAIN cs : j < i => Cardinality(cs[j]) < Cardinality(cs[i])]

\* On a graph without nodes max() has nothing to choose from (ValueError,
\* raised by the action) and the graph is left as it is.
keep_largest_component(G) ==
    IF components(G) = <<>> THEN G
    ELSE keep_only_nodes(G, max_by_len(components(G)))

\* ------------------------------------------------------ remove_past_depth
\* nx.bfs_tree(self, root, depth_limit=depth): root, then level by level
\* the successors not yet seen, depth levels at most.
RECURSIVE bfs_tree_undirected(_, _, _, _)
bfs_tree_undirected(G, seen, frontier, depth) ==
    IF depth = 0 \/ frontier = {} THEN seen
    ELSE LET reached == UNION {neighbours(G, v) : v \in frontier} \ seen
         IN  bfs_tree_undirected(G, seen \cup reached, reached, depth - 1)

RECURSIVE bfs_tree(_, _, _, _)
bfs_tree(G, seen, frontier, depth) ==
    IF depth = 0 \/ frontier = {} THEN seen
    ELSE LET reached == UNION {Range(G.succ[v]) : v \in frontier} \ seen
         IN  bfs_tree(G, seen \cup reached, reached, depth - 1)

remove_past_depth(G, root, depth) ==
    LET oriented_tree == bfs_tree(G, {root}, {root}, depth)
        removed == SelectSeq(G.order, LAMBDA n : n \notin oriented_tree)
    IN  remove_nodes_from(G, removed)

\* --------------------------------------------------------------- to_dicts
\* One document per node, in node order: the id, the name attribute and
\* the two adjacency lists as the dicts hold them.
to_dicts(G) ==
    [i \in DOMAIN G.order |->
        [_id |-> G.order[i],
         name |-> G.attr[G.order[i]].name,
         successors |-> G.succ[G.order[i]],
         predecessors |-> G.pred[G.order[i]]]]

\* ------------------------------------------------------------ add_assets
\* The three record streams of one build. pages is the dict id_to_name the
\* page stream is folded into; category_links is the stream of
\* CategoryLinksEntry (the grammar keeps 'subcat' rows only); categories is
\* the CategoryEntry stream, by name (cat_title is unique in the dump).
PageTables == {[i \in S |-> NamePool[i]] : S \in SUBSET Ids}

CategoryLinksEntries == [child_id : Ids, parent_name : Names]

RECURSIVE SeqsUpTo(_, _)
SeqsUpTo(S, n) ==
    IF n = 0 THEN {<<>>}
    ELSE LET shorter == SeqsUpTo(S, n - 1)
         IN  shorter \cup {Append(q, x) : q \in {r \in shorter : Len(r) = n - 1}, x \in S}

\* categorylinks has one row per (cl_from, cl_to): no entry comes twice.
CategoryLinkStreams ==
    {q \in SeqsUpTo(CategoryLinksEntries, MaxLinks) :
        \A i, j \in DOMAIN q : i # j => q[i] # q[j]}

\* The aggregate record of the category titled NamePool[i], when the
\* categories stream has one.
CategoryEntryOf(i) ==
    [pages |-> MaxPages, subcategories |-> (i - 1) % (MaxSubcats + 1)]

CategoryTables ==
    {[nm \in {NamePool[i] : i \in S} |->
        CategoryEntryOf(CHOOSE i \in Ids : NamePool[i] = nm)] : S \in SUBSET Ids}

AssetsChoices ==
    [pages : PageTables, category_links : CategoryLinkStreams, categories : CategoryTables]

name_to_id(id_to_name) ==
    [nm \in {id_to_name[i] : i \in DOMAIN id_to_name} |->
        CHOOSE i \in DOMAIN id_to_name : id_to_name[i] = nm]

\* A faulty variant: the edge appended as (child_id, linked_int_parent).
RECURSIVE resolved_edges_reversed(_, _)
resolved_edges_reversed(id_to_name, category_links) ==
    IF category_links = <<>> THEN <<>>
    ELSE LET category_link == Head(category_links)
             rest == resolved_edges_reversed(id_to_name, Tail(category_links))
             n2i == name_to_id(id_to_name)
         IN  IF /\ category_link.child_id \in DOMAIN id_to_name
                /\ category_link.parent_name \in DOMAIN n2i
             THEN <<<<category_link.child_id, n2i[category_link.parent_name]>>>> \o rest
             ELSE rest

\* The edges list: (linked_int_parent, child_id) for every link whose child
\* is a known category and whose parent name resolves.
RECURSIVE resolved_edges(_, _)
resolved_edges(id_to_name, category_links) ==
    IF category_links = <<>> THEN <<>>
    ELSE LET category_link == Head(category_links)
             rest == resolved_edges(id_to_name, Tail(category_links))
             n2i == name_to_id(id_to_name)
         IN  IF /\ category_link.child_id \in DOMAIN id_to_name
                /\ category_link.parent_name \in DOMAIN n2i
             THEN <<<<n2i[category_link.parent_name], category_link.child_id>>>> \o rest
             ELSE rest

\* A faulty variant: the subcategories are not taken off.
page_count_with_subcategories(category) == category.pages

page_count_of(category) == category.pages - category.subcategories

id_to_page_count(id_to_name, categories) ==
    LET n2i == name_to_id(id_to_name)
    IN  [i \in {n2i[nm] : nm \in (DOMAIN categories) \cap (DOMAIN n2i)} |->
            page_count_of(categories[id_to_name[i]])]

\* A faulty variant: the attributes set with add_node, which makes a node of
\* an id that is none yet.
set_attributes_adding_nodes(G, id_to_name, counts) ==
    LET missing == SelectSeq([i \in Ids |-> i],
                             LAMBDA i : i \in DOMAIN counts /\ i \notin nodes(G))
        G1 == add_nodes_from(G, missing)
    IN  [G1 EXCEPT !.attr = [i \in Ids |->
            IF i \in DOMAIN counts
            THEN CategoryAttributes(id_to_name[i], counts[i])
            ELSE @[i]]]

\* self.nodes[category_id] raises KeyError for an id that is no node: the
\* except clause logs a warning and goes on.
set_attributes(G, id_to_name, counts) ==
    [G EXCEPT !.attr = [i \in Ids |->
        IF i \in DOMAIN counts /\ i \in nodes(G)
        THEN CategoryAttributes(id_to_name[i], counts[i])
        ELSE @[i]]]

attributeless(G) == {i \in DOMAIN G.order : G.attr[G.order[i]].keys = {}}

\* for n in self.nodes: ... self.remove_node_reconstruct(n): the removal
\* changes the size of the dict the loop iterates, and the loop's next step
\* raises RuntimeError (dictionary changed size during iteration).
excise_attributeless(G) ==
    IF attributeless(G) = {}
    THEN [tree |-> G, error |-> "none"]
    ELSE LET first == CHOOSE i \in attributeless(G) : \A j \in attributeless(G) : i <= j
         IN  [tree |-> remove_node_reconstruct(G, G.order[first]),
              error |-> "RuntimeError"]

add_assets(G, assets) ==
    LET id_to_name == assets.pages
        edge_list == resolved_edges(id_to_name, assets.category_links)
        counts == id_to_page_count(id_to_name, assets.categories)
    IN  excise_attributeless(
            set_attributes(add_edges_from(G, edge_list), id_to_name, counts))

\* ------------------------------------------------- page_count_percentile
page_counts(G) == [i \in DOMAIN G.order |-> G.attr[G.order[i]].page_count]

\* Results of np.percentile are kept as exact hundredths.
Scale == 100

\* A faulty variant: the values interpolated in node order, unsorted.
np_percentile_unsorted(a, q) ==
    LET n == Len(a)
        virtual == (n - 1) * q
        previous == virtual \div Scale
        next == IF previous + 1 > n - 1 THEN n - 1 ELSE previous + 1
        gamma == virtual % Scale
    IN  a[previous + 1] * Scale + (a[next + 1] - a[previous + 1]) * gamma

\* np.percentile(a, q), method "linear": the virtual index (n-1)*q/100,
\* interpolated between the order statistics below and above it.
np_percentile(a, q) ==
    LET sorted == SortSeq(a, <)
        n == Len(a)
        virtual == (n - 1) * q
        previous == virtual \div Scale
        next == IF previous + 1 > n - 1 THEN n - 1 ELSE previous + 1
        gamma == virtual % Scale
    IN  sorted[previous + 1] * Scale + (sorted[next + 1] - sorted[previous + 1]) * gamma

\* np.percentile of an empty list: numpy before 1.22 returns nan (with a
\* RuntimeWarning), numpy from 1.22 raises IndexError; the repository pins
\* no version, and the method has no check of its own.
EmptyPercentileOutcomes == {"nan", "IndexError"}

\* ------------------------------------------------------ remove_by_condition
\* The predicates main.py passes: remove_no_reconstruct tests the name
\* against a pattern (here: membership in a set of names), remove_reconstruct
\* tests page_count < percentile_value or n in excluded_ids.
condition(c, n, x) ==
    IF c.kind = "name" THEN x.name \in c.names
    ELSE x.page_count * Scale < c.percentile_value \/ n \in c.excluded_ids

to_remove(G, c) == SelectSeq(G.order, LAMBDA n : condition(c, n, G.attr[n]))

RECURSIVE remove_all_reconstruct(_, _)
remove_all_reconstruct(G, ns) ==
    IF ns = <<>> THEN G
    ELSE remove_all_reconstruct(remove_node_reconstruct(G, Head(ns)), Tail(ns))

RECURSIVE remove_while_iterating(_, _, _)
remove_while_iterating(G, c, i) ==
    IF i > Len(G.order) THEN G
    ELSE IF condition(c, G.order[i], G.attr[G.order[i]])
         THEN remove_while_iterating(remove_node_reconstruct(G, G.order[i]), c, i + 1)
         ELSE remove_while_iterating(G, c, i + 1)

remove_by_condition_skipping(G, c) == remove_while_iterating(G, c, 1)

\* to_remove is a list, complete before the first removal.
remove_by_condition(G, c) == remove_all_reconstruct(G, to_remove(G, c))

\* ------------------------------------------------------------- snapshot
\* pickle writes the instance's dicts as they are: keys in order, values.
pickle_dump(G) ==
    [_node |-> [i \in DOMAIN G.order |-> <<G.order[i], G.attr[G.order[i]]>>],
     _succ |-> [i \in DOMAIN G.order |-> <<G.order[i], G.succ[G.order[i]]>>],
     _pred |-> [i \in DOMAIN G.order |-> <<G.order[i], G.pred[G.order[i]]>>]]

dict_get(items, k, default) ==
    IF \E i \in DOMAIN items : items[i][1] = k
    THEN items[CHOOSE i \in DOMAIN items : items[i][1] = k][2]
    ELSE default

pickle_load(data) ==
    [order |-> [i \in DOMAIN data._node |-> data._node[i][1]],
     attr  |-> [n \in Ids |-> dict_get(data._node, n, EmptyAttributes)],
     succ  |-> [n \in Ids |-> dict_get(data._succ, n, <<>>)],
     pred  |-> [n \in Ids |-> dict_get(data._pred, n, <<>>)]]

RECURSIVE adjacency_edges(_, _)
adjacency_edges(G, ns) ==
    IF ns = <<>> THEN <<>>
    ELSE [i \in DOMAIN G.succ[Head(ns)] |-> <<Head(ns), G.succ[Head(ns)][i]>>]
         \o adjacency_edges(G, Tail(ns))

\* A faulty variant: the structure rebuilt, the node attributes not copied.
from_graph_without_attributes(data) ==
    add_edges_from(add_nodes_from(EmptyGraph, data.order),
                   adjacency_edges(data, data.order))

\* cls(incoming_graph_data=G): networkx builds the new graph from G.adj
\* (nodes, then edges row by row), then copies each node's attributes.
from_graph(data) ==
    LET G1 == add_nodes_from(EmptyGraph, data.order)
        G2 == add_edges_from(G1, adjacency_edges(data, data.order))
    IN  [G2 EXCEPT !.attr = [n \in Ids |-> IF n \in nodes(G2) THEN data.attr[n] ELSE @[n]]]

deserialize(bytes) == from_graph(pickle_load(bytes))

\* ================================================================ state
\* tree  : the CategoryTree main.py works on
\* file  : graph.bytes (NoFile until written)
\* saved : the graph that was serialized into file (history, for the
\*         round trip)
\* pc    : "start" before the build, "built" after add_assets returned,
\*         "ready" once the snapshot is written, "failed" after an
\*         exception (nothing in main.py catches one)
\* last  : the last call: its name, argument, the graph before it, the
\*         exception it raised ("none" if none) and what it returned
VARIABLES tree, file, saved, pc, last

\* The SQLite staging database (db/database.py): its four tables, whether
\* insert_wiki_tables has run, and the last call with what it returned.
\* categories      : rows (id, title)
\* articles        : ids
\* article_edges   : rows (article_id, category_id)
\* category_edges  : rows (child_id, parent_id)
VARIABLES categories, articles, article_edges, category_edges, db_pc, db_last

\* One table read from one asset (db/assets.py): entries() pulling lines
\* from the generator stream_lines() returns.
\* asset    : the asset read: local file or remote URL, progress bar or not
\* stream   : the generator: where it stands ("none" before the call,
\*            "created", "suspended" at its yield, "finished", "raised",
\*            "closed"), the raw file object or HTTP response, the gzip
\*            reader and the progress bar (each unopened/none, open or
\*            closed), the number of lines yielded
\* consumer : the loop over the generator: "none", "iterating", "stopped"
\*            (it pulls no more, the generator not yet finalised), "done"
\* line     : the line last yielded, as the rows it holds
\* hits     : the records entries() made of that line
VARIABLES asset, stream, consumer, line, hits

tree_vars == <<tree, file, saved, pc, last>>

db_vars == <<categories, articles, article_edges, category_edges, db_pc, db_last>>

asset_vars == <<asset, stream, consumer, line, hits>>

vars == <<tree_vars, db_vars, asset_vars>>

NoFile == [exists |-> FALSE, bytes |-> pickle_dump(EmptyGraph)]

NoCall ==
    [op |-> "none", arg |-> 0, pre |-> EmptyGraph, error |-> "none",
     returns |-> "None", result |-> 0]

\* returns: "None", "number" (result holds it, in hundredths), "nan" or
\* "documents" (result holds the list to_dicts yields).
Call(op, arg, pre, error, returns, result) ==
    [op |-> op, arg |-> arg, pre |-> pre, error |-> error,
     returns |-> returns, result |-> result]

NoQuery == [op |-> "none", arg |-> {}, error |-> "none", result |-> {}]

TreeInit ==
    /\ tree = EmptyGraph
    /\ file = NoFile
    /\ saved = EmptyGraph
    /\ pc = "start"
    /\ last = NoCall

\* db_connect: the schema's four tables, empty.
DbInit ==
    /\ categories = {}
    /\ articles = {}
    /\ article_edges = {}
    /\ category_edges = {}
    /\ db_pc = "empty"
    /\ db_last = NoQuery

NoAsset == [kind |-> "none", progress |-> FALSE]

NoStream ==
    [gen |-> "none", raw |-> "unopened", gz |-> "unopened", p_bar |-> "none",
     position |-> 0]

AssetInit ==
    /\ asset = NoAsset
    /\ stream = NoStream
    /\ consumer = "none"
    /\ line = <<>>
    /\ hits = <<>>

Init == TreeInit /\ DbInit /\ AssetInit

\* CategoryTree(assets=latest_assets(language)): __init__ runs add_assets.
AddAssets ==
    /\ pc = "start"
    /\ \E assets \in AssetsChoices :
          LET r == add_assets(tree, assets)
          IN  /\ tree' = r.tree
              /\ pc' = IF r.error = "none" THEN "built" ELSE "failed"
              /\ last' = Call("add_assets", assets, tree, r.error, "None", 0)
    /\ UNCHANGED <<file, saved, db_vars, asset_vars>>

Serialize ==
    /\ pc \in {"built", "ready"}
    /\ file' = [exists |-> TRUE, bytes |-> pickle_dump(tree)]
    /\ saved' = tree
    /\ pc' = "ready"
    /\ last' = Call("serialize", 0, tree, "none", "None", 0)
    /\ UNCHANGED <<tree, db_vars, asset_vars>>

Deserialize ==
    /\ pc = "ready"
    /\ file.exists
    /\ tree' = deserialize(file.bytes)
    /\ last' = Call("deserialize", 0, tree, "none", "None", 0)
    /\ UNCHANGED <<file, saved, pc, db_vars, asset_vars>>

RemoveNodeReconstruct ==
    /\ pc = "ready"
    /\ \E n \in nodes(tree) :
          /\ tree' = remove_node_reconstruct(tree, n)
          /\ last' = Call("remove_node_reconstruct", n, tree, "none", "None", 0)
    /\ UNCHANGED <<file, saved, pc, db_vars, asset_vars>>

ExcludedIdSets == {X \in SUBSET Ids : Cardinality(X) <= MaxExcluded}

ExcludedNameSets == {X \in SUBSET Names : Cardinality(X) <= MaxExcluded}

\* The predicates a caller may pass now: by name always; by page count
\* once page_count_percentile has returned the threshold (main.py computes
\* percentile_value right before it builds remove_reconstruct).
Conditions ==
    {[kind |-> "name", names |-> X, percentile_value |-> 0, excluded_ids |-> {}] :
        X \in ExcludedNameSets}
    \cup
    (IF last.op = "page_count_percentile" /\ last.returns = "number"
     THEN {[kind |-> "page_count", names |-> {}, percentile_value |-> last.result,
            excluded_ids |-> X] : X \in ExcludedIdSets}
     ELSE {})

\* How the repository calls it. tree.py's signature takes the condition
\* alone ("absent"). main.py passes remove_no_reconstruct (by name) with
\* reconstruct=False and remove_reconstruct (by page count) with
\* reconstruct=True; the signature accepts no such keyword: TypeError,
\* before anything runs.
ReconstructKeyword(c) ==
    {"absent"} \cup (IF c.kind = "name" THEN {"False"} ELSE {"True"})

RemoveByCondition ==
    /\ pc = "ready"
    /\ \E c \in Conditions :
       \E reconstruct \in ReconstructKeyword(c) :
          LET arg == [condition |-> c, reconstruct |-> reconstruct]
          IN  IF reconstruct = "absent"
              THEN /\ tree' = remove_by_condition(tree, c)
                   /\ pc' = pc
                   /\ last' = Call("remove_by_condition", arg, tree, "none", "None", 0)
              ELSE /\ tree' = tree
                   /\ pc' = "failed"
                   /\ last' = Call("remove_by_condition", arg, tree, "TypeError", "None", 0)
    /\ UNCHANGED <<file, saved, db_vars, asset_vars>>

PageCountPercentile ==
    /\ pc = "ready"
    /\ \E percentile \in Percentiles :
          IF \E n \in nodes(tree) : "page_count" \notin tree.attr[n].keys
          THEN /\ pc' = "failed"
               /\ last' = Call("page_count_percentile", percentile, tree, "KeyError", "None", 0)
          ELSE IF nodes(tree) = {}
          THEN \E outcome \in EmptyPercentileOutcomes :
                  IF outcome = "nan"
                  THEN /\ pc' = pc
                       /\ last' = Call("page_count_percentile", percentile, tree, "none", "nan", 0)
                  ELSE /\ pc' = "failed"
                       /\ last' = Call("page_count_percentile", percentile, tree, outcome, "None", 0)
          ELSE /\ pc' = pc
               /\ last' = Call("page_count_percentile", percentile, tree, "none", "number",
                               np_percentile(page_counts(tree), percentile))
    /\ UNCHANGED <<tree, file, saved, db_vars, asset_vars>>

KeepLargestComponent ==
    /\ pc = "ready"
    /\ IF nodes(tree) = {}
       THEN /\ tree' = tree
            /\ pc' = "failed"
            /\ last' = Call("keep_largest_component", 0, tree, "ValueError", "None", 0)
       ELSE /\ tree' = keep_largest_component(tree)
            /\ pc' = pc
            /\ last' = Call("keep_largest_component", 0, tree, "none", "None", 0)
    /\ UNCHANGED <<file, saved, db_vars, asset_vars>>

\* root is a node of the graph: bfs_tree on any other root raises.
RemovePastDepth ==
    /\ pc = "ready"
    /\ \E root \in nodes(tree), depth \in 0..MaxDepth :
          /\ tree' = remove_past_depth(tree, root, depth)
          /\ last' = Call("remove_past_depth", [root |-> root, depth |-> depth],
                          tree, "none", "None", 0)
    /\ UNCHANGED <<file, saved, pc, db_vars, asset_vars>>

\* The export main.py hands to insert_many, which runs the generator to
\* its end; self.nodes[n]["name"] raises KeyError on a node without one.
ToDicts ==
    /\ pc = "ready"
    /\ IF \E n \in nodes(tree) : "name" \notin tree.attr[n].keys
       THEN /\ pc' = "failed"
            /\ last' = Call("to_dicts", 0, tree, "KeyError", "None", 0)
       ELSE /\ pc' = pc
            /\ last' = Call("to_dicts", 0, tree, "none", "documents", to_dicts(tree))
    /\ UNCHANGED <<tree, file, saved, db_vars, asset_vars>>

Next ==
    \/ AddAssets
    \/ Serialize
    \/ Deserialize
    \/ RemoveNodeReconstruct
    \/ RemoveByCondition
    \/ PageCountPercentile
    \/ KeepLargestComponent
    \/ RemovePastDepth
    \/ ToDicts

Spec == Init /\ [][Next]_vars

\* ===================================================== SQLite staging
\* One run's dump tables (db/assets.py): every page id is an article
\* (namespace 0), a category (namespace 14, titled NamePool[id]) or no row;
\* the category links, one per (cl_from, cl_to).
PageKinds == {"none", "article", "category"}

WikiPages == [Ids -> PageKinds]

WikiCategoryLinks == [cl_from : Ids, cl_to : Names, is_article : BOOLEAN]

RECURSIVE SubsetsUpTo(_, _)
SubsetsUpTo(S, n) ==
    IF n = 0 THEN {{}}
    ELSE LET smaller == SubsetsUpTo(S, n - 1)
         IN  smaller \cup {X \cup {x} : X \in smaller, x \in S}

WikiLinkSets ==
    {L \in SubsetsUpTo(WikiCategoryLinks, MaxLinks) :
        \A a, b \in L : (a.cl_from = b.cl_from /\ a.cl_to = b.cl_to) => a = b}

WikiTablesChoices == [pages : WikiPages, category_links : WikiLinkSets]

insert_pages(pages) ==
    [articles |-> {i \in Ids : pages[i] = "article"},
     categories |-> {[id |-> i, title |-> NamePool[i]] : i \in {j \in Ids : pages[j] = "category"}}]

\* INSERT INTO article_edges SELECT ?, c.id FROM categories c WHERE
\* EXISTS (SELECT 1 FROM articles a WHERE a.id = ?) AND c.title = ?
insert_article_links(cats, arts, category_links) ==
    {e \in Ids \X Ids :
        \E l \in category_links, c \in cats :
            l.is_article /\ l.cl_from \in arts /\ c.title = l.cl_to
            /\ e = <<l.cl_from, c.id>>}

\* INSERT INTO category_edges SELECT ?, c.id FROM categories c WHERE c.title = ?
insert_subcategory_links(cats, category_links) ==
    {e \in Ids \X Ids :
        \E l \in category_links, c \in cats :
            ~l.is_article /\ c.title = l.cl_to /\ e = <<l.cl_from, c.id>>}

\* INSERT INTO article_edges SELECT c.id, c.id FROM categories c
insert_category_self_articles(cats) == {<<c.id, c.id>> : c \in cats}

category_ids(cats) == {c.id : c \in cats}

remove_orphaned_category_edges(cats, c_edges) ==
    {e \in c_edges : ~(e[1] \notin category_ids(cats) \/ e[2] \notin category_ids(cats))}

remove_orphaned_article_edges(cats, arts, a_edges) ==
    {e \in a_edges : ~(e[1] \notin arts \/ e[2] \notin category_ids(cats))}

\* (SELECT COUNT(1) - 1 FROM article_edges a WHERE a.category_id = c.id)
article_count(a_edges, category_id) ==
    Cardinality({e \in a_edges : e[2] = category_id}) - 1

category_count(cats) == Cardinality(cats)

InsertWikiTables ==
    /\ db_pc = "empty"
    /\ \E tables \in WikiTablesChoices :
          LET inserted == insert_pages(tables.pages)
          IN  /\ articles' = inserted.articles
              /\ categories' = inserted.categories
              /\ article_edges' =
                    insert_article_links(inserted.categories, inserted.articles,
                                         tables.category_links)
                    \cup insert_category_self_articles(inserted.categories)
              /\ category_edges' =
                    insert_subcategory_links(inserted.categories, tables.category_links)
    /\ db_pc' = "loaded"
    /\ db_last' = [op |-> "insert_wiki_tables", arg |-> {}, error |-> "none", result |-> {}]
    /\ UNCHANGED <<tree_vars, asset_vars>>

RemoveCategories ==
    /\ db_pc = "loaded"
    /\ \E category_ids_arg \in SUBSET Ids :
          LET kept == {c \in categories : c.id \notin category_ids_arg}
          IN  /\ categories' = kept
              /\ category_edges' = remove_orphaned_category_edges(kept, category_edges)
              /\ db_last' = [op |-> "remove_categories", arg |-> category_ids_arg,
                             error |-> "none", result |-> {}]
    /\ UNCHANGED <<articles, article_edges, db_pc, tree_vars, asset_vars>>

RemoveArticles ==
    /\ db_pc = "loaded"
    /\ \E article_ids \in SUBSET Ids :
          LET kept == articles \ article_ids
          IN  /\ articles' = kept
              /\ article_edges' = remove_orphaned_article_edges(categories, kept, article_edges)
              /\ db_last' = [op |-> "remove_articles", arg |-> article_ids,
                             error |-> "none", result |-> {}]
    /\ UNCHANGED <<categories, category_edges, db_pc, tree_vars, asset_vars>>

\* The percentile argument, a float in [0, 1), in hundredths.
DbPercentiles == {0, 50, 99}

\* ORDER BY article_count ASC LIMIT 1 OFFSET int(percentile * category_count):
\* fetchone() is None when there is no category, and None[1] is a TypeError.
ArticleCountByPercentile ==
    /\ db_pc = "loaded"
    /\ \E percentile \in DbPercentiles :
          IF categories = {}
          THEN db_last' = [op |-> "article_count_by_percentile", arg |-> {percentile},
                           error |-> "TypeError", result |-> {}]
          ELSE LET ids == category_ids(categories)
                   offset == (percentile * category_count(categories)) \div Scale
                   counts == SortSeq(
                       [i \in 1..Cardinality(ids) |->
                           article_count(article_edges,
                               CHOOSE c \in ids : Cardinality({d \in ids : d < c}) = i - 1)],
                       <)
               IN  db_last' = [op |-> "article_count_by_percentile", arg |-> {percentile},
                               error |-> "none", result |-> {counts[offset + 1]}]
    /\ UNCHANGED <<categories, articles, article_edges, category_edges, db_pc, tree_vars, asset_vars>>

CategoriesUnderArticleCount ==
    /\ db_pc = "loaded"
    /\ \E bound \in 0..MaxLinks :
          db_last' = [op |-> "categories_under_article_count", arg |-> {bound},
                      error |-> "none",
                      result |-> {c \in category_ids(categories) :
                                     article_count(article_edges, c) < bound}]
    /\ UNCHANGED <<categories, articles, article_edges, category_edges, db_pc, tree_vars, asset_vars>>

DbNext ==
    \/ InsertWikiTables
    \/ RemoveCategories
    \/ RemoveArticles
    \/ ArticleCountByPercentile
    \/ CategoriesUnderArticleCount

DbSpec == Init /\ [][DbNext]_vars

\* ============================================== line source, extractor
\* A dump line is a run of rows "(f1,f2,...)" joined by commas. A field
\* is an integer (its digits) or a quoted string (its body between the
\* quotes, as units: a word, or one backslash escape).
IntegerValue(digits) == [type |-> "int", text |-> digits]

StringValue(body) == [type |-> "str", text |-> body]

Punctuation(p) == [type |-> p, text |-> <<>>]

FirstFields == {IntegerValue(<<1, 2>>), StringValue(<<"Bar">>)}

SecondFields == {StringValue(<<"B", "\\'", "r">>)}

MiddleFields ==
    {[i \in 1..4 |-> StringValue(<<>>)],
     [i \in 1..4 |-> IntegerValue(<<0>>)],
     [i \in 1..3 |-> StringValue(<<>>)]}

LastFields == {StringValue(<<"page">>), StringValue(<<"subcat">>), StringValue(<<"file">>)}

Rows ==
    {<<f1, f2>> \o middle \o <<last_field>> :
        f1 \in FirstFields, f2 \in SecondFields,
        middle \in MiddleFields, last_field \in LastFields}

\* The rows of the line stream_lines yields next.
Lines == SeqsUpTo(Rows, MaxRows)

RECURSIVE joined(_, _)
joined(parts, separator) ==
    IF parts = <<>> THEN <<>>
    ELSE IF Len(parts) = 1 THEN Head(parts)
    ELSE Head(parts) \o <<separator>> \o joined(Tail(parts), separator)

row_text(row) ==
    <<Punctuation("(")>>
        \o joined([i \in DOMAIN row |-> <<row[i]>>], Punctuation(","))
        \o <<Punctuation(")")>>

\* The text of a line, as the tokens the pattern runs over.
line_text(rows) == joined([i \in DOMAIN rows |-> row_text(rows[i])], Punctuation(","))

pattern_any_middle ==
    <<"(", "int", ",", "str", ",", "any", ",", "any", ",", "any", ",", "any", ",",
      "page|subcat", ")">>

\* \((\d+),('...'),(?:'...',){4}'((?:page)|(?:subcat))'\)
pattern ==
    <<"(", "int", ",", "str", ",", "str", ",", "str", ",", "str", ",", "str", ",",
      "page|subcat", ")">>

fits(token, p) ==
    CASE p = "page|subcat" ->
             token.type = "str" /\ token.text \in {<<"page">>, <<"subcat">>}
      [] p = "any" -> token.type \in {"int", "str"}
      [] OTHER -> token.type = p

match_at(text, i) ==
    /\ i + Len(pattern) - 1 <= Len(text)
    /\ \A k \in DOMAIN pattern : fits(text[i + k - 1], pattern[k])

\* pattern.findall(line): the groups of every match, left to right, each
\* search starting where the match before it ended.
RECURSIVE findall(_, _)
findall(text, i) ==
    IF i > Len(text) THEN <<>>
    ELSE IF match_at(text, i)
         THEN <<<<text[i + 1].text, text[i + 3].text, text[i + 13].text>>>>
                  \o findall(text, i + Len(pattern))
         ELSE findall(text, i + 1)

\* int(cl_from)
RECURSIVE int(_)
int(digits) ==
    IF digits = <<>> THEN 0
    ELSE 10 * int(SubSeq(digits, 1, Len(digits) - 1)) + digits[Len(digits)]

\* ast.literal_eval(cl_to): the body without its quotes, each backslash
\* escape replaced by the character it stands for.
literal_eval(body) ==
    [i \in DOMAIN body |->
        CASE body[i] = "\\'" -> "'"
          [] body[i] = "\\\\" -> "\\"
          [] OTHER -> body[i]]

CategoryLinksEntry(cl_from, cl_to, is_article) ==
    [cl_from |-> cl_from, cl_to |-> cl_to, is_article |-> is_article]

\* What entries() yields for one line.
entries(rows) ==
    LET found == findall(line_text(rows), 1)
    IN  [k \in DOMAIN found |->
            CategoryLinksEntry(int(found[k][1]), literal_eval(found[k][2]),
                               found[k][3] = <<"page">>)]

Assets == [kind : {"local", "remote"}, progress : BOOLEAN]

closed(handle) == IF handle = "open" THEN "closed" ELSE handle

leave_inner_with_only(s) == [s EXCEPT !.gz = closed(@)]

\* Leaving the two with blocks, on any way out of them: the gzip reader is
\* closed, then the file object (local) or the response (remote).
leave_with_blocks(s) == [s EXCEPT !.gz = closed(@), !.raw = closed(@)]

\* stream_lines(): the generator object; its body has not started.
StreamLines ==
    /\ stream.gen = "none"
    /\ \E a \in Assets :
          /\ asset' = a
          /\ stream' = [NoStream EXCEPT !.gen = "created"]
    /\ consumer' = "iterating"
    /\ UNCHANGED <<line, hits, tree_vars, db_vars>>

\* What a read brings: a line, the end of the stream, or an error of the
\* file, the connection or the decompression. The model reads MaxLines
\* lines at most.
Reads(s) ==
    {[outcome |-> "eof", rows |-> <<>>], [outcome |-> "error", rows |-> <<>>]}
    \cup (IF s.position < MaxLines
          THEN {[outcome |-> "line", rows |-> l] : l \in Lines}
          ELSE {})

\* The generator after a read, s being the generator as the read found it.
after_read(s, read) ==
    IF read.outcome = "line"
    THEN [s EXCEPT !.gen = "suspended", !.position = @ + 1]
    ELSE IF read.outcome = "eof"
    THEN [leave_with_blocks(s) EXCEPT !.gen = "finished", !.p_bar = closed(@)]
    ELSE [leave_with_blocks(s) EXCEPT !.gen = "raised"]

\* The first next(): the body runs to its first yield. The local source
\* makes the progress bar, then opens the file; the remote source sends
\* the request, then makes the progress bar. Either open may fail.
Start ==
    /\ consumer = "iterating"
    /\ stream.gen = "created"
    /\ \E opens \in BOOLEAN :
          LET with_bar == [stream EXCEPT !.p_bar = IF asset.progress THEN "open" ELSE "none"]
              opened == [with_bar EXCEPT !.raw = "open", !.gz = "open"]
          IN  IF ~opens
              THEN /\ stream' = [(IF asset.kind = "local" THEN with_bar ELSE stream)
                                    EXCEPT !.gen = "raised"]
                   /\ consumer' = "done"
                   /\ UNCHANGED <<line, hits>>
              ELSE \E read \in Reads(opened) :
                      /\ stream' = after_read(opened, read)
                      /\ consumer' = IF read.outcome = "line" THEN consumer ELSE "done"
                      /\ line' = IF read.outcome = "line" THEN read.rows ELSE line
                      /\ hits' = IF read.outcome = "line" THEN entries(read.rows) ELSE hits
    /\ UNCHANGED <<asset, tree_vars, db_vars>>

\* A later next(): the body goes on after its yield to the next read.
Resume ==
    /\ consumer = "iterating"
    /\ stream.gen = "suspended"
    /\ \E read \in Reads(stream) :
          /\ stream' = after_read(stream, read)
          /\ consumer' = IF read.outcome = "line" THEN consumer ELSE "done"
          /\ line' = IF read.outcome = "line" THEN read.rows ELSE line
          /\ hits' = IF read.outcome = "line" THEN entries(read.rows) ELSE hits
    /\ UNCHANGED <<asset, tree_vars, db_vars>>

\* The consumer leaves its loop early (break, return, an exception of its
\* own): it calls next() no more.
Stop ==
    /\ consumer = "iterating"
    /\ stream.gen \in {"created", "suspended"}
    /\ consumer' = "stopped"
    /\ UNCHANGED <<asset, stream, line, hits, tree_vars, db_vars>>

\* The interpreter finalises the abandoned generator: close() throws
\* GeneratorExit in at the yield and the with blocks are left; a generator
\* that never started has nothing open.
Finalize ==
    /\ consumer = "stopped"
    /\ stream.gen \in {"created", "suspended"}
    /\ stream' = [(IF stream.gen = "suspended" THEN leave_with_blocks(stream) ELSE stream)
                     EXCEPT !.gen = "closed"]
    /\ UNCHANGED <<asset, consumer, line, hits, tree_vars, db_vars>>

AssetNext ==
    \/ StreamLines
    \/ Start
    \/ Resume
    \/ Stop
    \/ Finalize

AssetSpec == Init /\ [][AssetNext]_vars

\* A generator no loop refers to any more is finalised: at once under
\* reference counting, at the latest when the interpreter exits.
AssetFairSpec == AssetSpec /\ WF_vars(Finalize)

\* =============================================================== claims
IsCall(op) == last.op = op

\* Ids that are an endpoint of a resolved subcategory link of the build.
LinkedIds(assets) ==
    {e[1] : e \in Range(resolved_edges(assets.pages, assets.category_links))}
    \cup {e[2] : e \in Range(resolved_edges(assets.pages, assets.category_links))}

HasRecord(assets, i) ==
    i \in DOMAIN assets.pages /\ assets.pages[i] \in DOMAIN assets.categories

RecordAttributes(assets, i) ==
    CategoryAttributes(assets.pages[i],
        assets.categories[assets.pages[i]].pages
            - assets.categories[assets.pages[i]].subcategories)

\* C1: after remove_node_reconstruct(n), every predecessor p and successor s
\* of n in the graph before the call (p # n, s # n) are joined by the edge
\* (p, s), however many predecessors n had.
C1_TwoHopPreserved ==
    (IsCall("remove_node_reconstruct") /\ last.error = "none") =>
        \A p \in Range(last.pre.pred[last.arg]) \ {last.arg} :
        \A s \in Range(last.pre.succ[last.arg]) \ {last.arg} :
            <<p, s>> \in edges(tree)

\* C2: remove_by_condition honours the reconstruct flag: with
\* reconstruct=False the call raises nothing, the matching nodes are gone and
\* the edges are exactly the old edges between surviving nodes; with
\* reconstruct=True the call raises nothing and every matching node is
\* removed by reconstructive removal.
C2_ReconstructFlagHonoured ==
    (IsCall("remove_by_condition") /\ last.arg.reconstruct # "absent") =>
        LET matching == Range(to_remove(last.pre, last.arg.condition))
        IN  /\ last.error = "none"
            /\ nodes(tree) = nodes(last.pre) \ matching
            /\ last.arg.reconstruct = "False" =>
                  edges(tree) = {e \in edges(last.pre) :
                                    e[1] \notin matching /\ e[2] \notin matching}
            /\ last.arg.reconstruct = "True" =>
                  tree = remove_all_reconstruct(last.pre,
                             to_remove(last.pre, last.arg.condition))

\* C3: a build whose graph has a node with no aggregate record still ends
\* normally, every such node is gone from the graph, and every node left
\* has both name and page_count.
C3_BuildSelfHeals ==
    (IsCall("add_assets")
     /\ \E i \in LinkedIds(last.arg) : ~HasRecord(last.arg, i)) =>
        /\ last.error = "none"
        /\ \A i \in LinkedIds(last.arg) : ~HasRecord(last.arg, i) => i \notin nodes(tree)
        /\ \A n \in nodes(tree) : tree.attr[n].keys = {"name", "page_count"}

\* C4 as claimed: after add_assets every category of the page stream whose
\* name has an aggregate record is a node with name and page_count, linked
\* or not.
C4_EveryCategoryIsNode ==
    IsCall("add_assets") =>
        \A i \in Ids : HasRecord(last.arg, i) =>
            i \in nodes(tree) /\ tree.attr[i] = RecordAttributes(last.arg, i)

\* C4 as amended: after add_assets a category whose name has an aggregate
\* record is a node, with name and page_count, exactly when it is an endpoint
\* of a resolved subcategory link; an isolated category is no node.
C4_LinkedCategoryIsNode ==
    IsCall("add_assets") =>
        \A i \in Ids : HasRecord(last.arg, i) =>
            IF i \in LinkedIds(last.arg)
            THEN i \in nodes(tree) /\ tree.attr[i] = RecordAttributes(last.arg, i)
            ELSE i \notin nodes(tree)

C4_Witness ==
    /\ IsCall("add_assets")
    /\ \E i, j \in Ids :
          /\ HasRecord(last.arg, i) /\ i \in LinkedIds(last.arg) /\ i \in nodes(tree)
          /\ HasRecord(last.arg, j) /\ j \notin LinkedIds(last.arg) /\ j \notin nodes(tree)

\* The links of a build that resolve: the child is a known category id and
\* the parent name is the title of a known category.
ResolvingLinks(assets) ==
    {l \in Range(assets.category_links) :
        /\ l.child_id \in DOMAIN assets.pages
        /\ \E i \in DOMAIN assets.pages : assets.pages[i] = l.parent_name}

SpecExampleAssets ==
    [pages |-> [i \in {1, 2} |-> NamePool[i]],
     category_links |-> <<[child_id |-> 2, parent_name |-> "A"]>>,
     categories |-> [nm \in {"A", "B"} |-> CategoryEntryOf(IF nm = "A" THEN 1 ELSE 2)]]

\* C5: when every linked category has an aggregate record, the edges after
\* add_assets are exactly (id of parent_name, child_id) for the links that
\* resolve, directed parent -> child; pages {1:"A", 2:"B"} with the link
\* 2 -> "A" give exactly the edge (1, 2).
C5_EdgeSet ==
    (IsCall("add_assets") /\ \A i \in LinkedIds(last.arg) : HasRecord(last.arg, i)) =>
        /\ edges(tree) =
              {<<CHOOSE i \in DOMAIN last.arg.pages : last.arg.pages[i] = l.parent_name,
                 l.child_id>> : l \in ResolvingLinks(last.arg)}
        /\ last.arg = SpecExampleAssets => edges(tree) = {<<1, 2>>}

C5_Witness ==
    /\ IsCall("add_assets")
    /\ \A i \in LinkedIds(last.arg) : HasRecord(last.arg, i)
    /\ \E u, v \in Ids : u # v /\ <<u, v>> \in edges(tree) /\ <<v, u>> \notin edges(tree)
    /\ \E l \in Range(last.arg.category_links) : l.child_id \notin DOMAIN last.arg.pages
    /\ \E l \in Range(last.arg.category_links) :
          l.child_id \in DOMAIN last.arg.pages /\ l \notin ResolvingLinks(last.arg)

\* C6: after add_assets every node whose name has an aggregate record has
\* page_count = pages - subcategories of the record of that name, and the
\* page title of its id as name.
C6_PageCountFromRecord ==
    IsCall("add_assets") =>
        \A n \in nodes(tree) : HasRecord(last.arg, n) =>
            /\ tree.attr[n].keys = {"name", "page_count"}
            /\ tree.attr[n].name = last.arg.pages[n]
            /\ tree.attr[n].page_count =
                  last.arg.categories[last.arg.pages[n]].pages
                      - last.arg.categories[last.arg.pages[n]].subcategories

C6_Witness ==
    /\ IsCall("add_assets")
    /\ \E n, m \in nodes(tree) :
          /\ HasRecord(last.arg, n) /\ HasRecord(last.arg, m)
          /\ last.arg.categories[last.arg.pages[n]].subcategories > 0
          /\ tree.attr[n].page_count # tree.attr[m].page_count

\* C7: in the staging database, for every category still in the categories
\* table, the article count the queries use (rows of article_edges with that
\* category_id, minus 1) is the number of its rows whose article_id is a
\* known article.
C7_ArticleCountIsArticles ==
    db_pc = "loaded" =>
        \A c \in category_ids(categories) :
            article_count(article_edges, c) =
                Cardinality({e \in article_edges : e[2] = c /\ e[1] \in articles})

\* C8: the graph read back from the snapshot has the node ids, the name and
\* page_count of every node, and the directed edges of the graph that was
\* written.
C8_RoundTrip ==
    IsCall("deserialize") =>
        /\ nodes(tree) = nodes(saved)
        /\ \A n \in Ids : tree.attr[n] = saved.attr[n]
        /\ edges(tree) = edges(saved)
        /\ \A n \in nodes(tree) : Range(tree.pred[n]) = Range(saved.pred[n])

C8_Witness ==
    /\ IsCall("deserialize")
    /\ tree # last.pre
    /\ tree # saved
    /\ edges(tree) # {}
    /\ \A n \in nodes(tree) : tree.attr[n].keys = {"name", "page_count"}

\* C9: page_count_percentile on a graph with no node ends in an exception,
\* never in a returned value, and leaves the graph as it was.
C9_EmptyPercentileRaises ==
    (IsCall("page_count_percentile") /\ nodes(last.pre) = {}) =>
        /\ last.error # "none"
        /\ last.returns = "None"
        /\ tree = last.pre

Minimum(a) == CHOOSE x \in Range(a) : \A y \in Range(a) : x <= y

Maximum(a) == CHOOSE x \in Range(a) : \A y \in Range(a) : y <= x

\* C10: on a graph with nodes, page_count_percentile is monotone in the
\* percentile, lies between the least and the greatest page_count, is the
\* least at 0 and the greatest at 100.
C10_PercentileMonotone ==
    (IsCall("page_count_percentile") /\ last.returns = "number") =>
        LET a == page_counts(last.pre)
        IN  /\ \A q \in Percentiles :
                  /\ last.arg < q => last.result <= np_percentile(a, q)
                  /\ q < last.arg => np_percentile(a, q) <= last.result
            /\ Minimum(a) * Scale <= last.result
            /\ last.result <= Maximum(a) * Scale
            /\ last.arg = 0 => last.result = Minimum(a) * Scale
            /\ last.arg = 100 => last.result = Maximum(a) * Scale

C10_Witness ==
    /\ IsCall("page_count_percentile")
    /\ last.returns = "number"
    /\ last.arg \notin {0, 100}
    /\ last.result % Scale # 0
    /\ Len(last.pre.order) >= 3
    /\ page_counts(last.pre) # SortSeq(page_counts(last.pre), <)

\* A walk from u to v over edges taken in either direction.
UndirectedPath(G, u, v) ==
    \E q \in SeqsUpTo(nodes(G), Cardinality(nodes(G))) :
        /\ q # <<>>
        /\ q[1] = u
        /\ q[Len(q)] = v
        /\ \A i \in 1..(Len(q) - 1) :
              <<q[i], q[i + 1]>> \in edges(G) \/ <<q[i + 1], q[i]>> \in edges(G)

WeaklyConnected(G) == \A u, v \in nodes(G) : UndirectedPath(G, u, v)

\* D is a weakly connected component of G.
IsComponent(G, D) ==
    /\ D # {}
    /\ D \subseteq nodes(G)
    /\ \A u, v \in D : UndirectedPath(G, u, v)
    /\ \A e \in edges(G) : e[1] \in D <=> e[2] \in D

\* The place in node order of the earliest node of D.
FirstPosition(G, D) ==
    CHOOSE i \in DOMAIN G.order :
        G.order[i] \in D /\ \A j \in 1..(i - 1) : G.order[j] \notin D

\* C11: keep_largest_component is idempotent: applied to the graph one
\* application left, it leaves the same nodes and the same edges, and the
\* graph one application left is weakly connected.
C11_KeepLargestIdempotent ==
    (IsCall("keep_largest_component") /\ last.error = "none") =>
        /\ nodes(keep_largest_component(tree)) = nodes(tree)
        /\ edges(keep_largest_component(tree)) = edges(tree)
        /\ WeaklyConnected(tree)

C11_Witness ==
    /\ IsCall("keep_largest_component")
    /\ last.error = "none"
    /\ nodes(tree) # nodes(last.pre)
    /\ Cardinality(nodes(tree)) >= 2

\* C12: keep_largest_component on a graph with nodes keeps exactly one
\* weakly connected component of the graph before: one no other component
\* exceeds in nodes and, among those of that size, the one enumerated first;
\* the edges left are the old edges inside it and the attributes of its
\* nodes are the old ones.
C12_KeepsFirstLargest ==
    (IsCall("keep_largest_component") /\ last.error = "none") =>
        LET C == nodes(tree)
            others == {D \in SUBSET nodes(last.pre) : IsComponent(last.pre, D) /\ D # C}
        IN  /\ IsComponent(last.pre, C)
            /\ \A D \in others : Cardinality(D) <= Cardinality(C)
            /\ \A D \in others :
                  Cardinality(D) = Cardinality(C) =>
                      FirstPosition(last.pre, C) < FirstPosition(last.pre, D)
            /\ edges(tree) = {e \in edges(last.pre) : e[1] \in C /\ e[2] \in C}
            /\ \A n \in C : tree.attr[n] = last.pre.attr[n]

C12_Witness ==
    /\ IsCall("keep_largest_component")
    /\ last.error = "none"
    /\ \E D \in SUBSET nodes(last.pre) :
          /\ IsComponent(last.pre, D)
          /\ D # nodes(tree)
          /\ Cardinality(D) = Cardinality(nodes(tree))

\* Nodes a directed path of at most depth edges leads to from root.
WithinDepth(G, root, depth) ==
    {n \in nodes(G) :
        \E q \in SeqsUpTo(nodes(G), depth + 1) :
            /\ q # <<>>
            /\ q[1] = root
            /\ q[Len(q)] = n
            /\ \A i \in 1..(Len(q) - 1) : <<q[i], q[i + 1]>> \in edges(G)}

C14_ExportConsistent ==
    (IsCall("to_dicts") /\ last.returns = "documents") =>
        LET docs == last.result
        IN  /\ \A n \in nodes(tree) :
                  Cardinality({i \in DOMAIN docs : docs[i]._id = n}) = 1
            /\ \A i \in DOMAIN docs :
                  /\ docs[i]._id \in nodes(tree)
                  /\ Range(docs[i].successors) \subseteq nodes(tree)
                  /\ Range(docs[i].predecessors) \subseteq nodes(tree)
            /\ \A i, j \in DOMAIN docs :
                  docs[j]._id \in Range(docs[i].successors)
                      <=> docs[i]._id \in Range(docs[j].predecessors)

C14_Witness ==
    /\ IsCall("to_dicts")
    /\ last.returns = "documents"
    /\ nodes(tree) # nodes(saved)
    /\ nodes(tree) \subseteq nodes(saved)
    /\ edges(tree) # {}

\* C18: remove_by_condition evaluates the predicate on the graph before
\* the call only: the nodes one call removes are exactly those the
\* predicate holds for there, and every other node is still present with
\* the attributes it had.
C18_PreStateSelection ==
    (IsCall("remove_by_condition") /\ last.error = "none") =>
        LET holds == {n \in nodes(last.pre) :
                         condition(last.arg.condition, n, last.pre.attr[n])}
        IN  /\ nodes(last.pre) \ nodes(tree) = holds
            /\ nodes(tree) \subseteq nodes(last.pre)
            /\ \A n \in nodes(last.pre) \ holds :
                  n \in nodes(tree) /\ tree.attr[n] = last.pre.attr[n]

C18_Witness ==
    /\ IsCall("remove_by_condition")
    /\ last.error = "none"
    /\ Cardinality(nodes(last.pre) \ nodes(tree)) >= 2
    /\ nodes(tree) # {}
    /\ edges(tree) \ edges(last.pre) # {}

\* C19: remove_node_reconstruct(n), with P and S the predecessors and
\* successors of n other than n: n is the one node gone; every old edge
\* not at n is kept; every edge that is new joins some p in P to some s in
\* S; no edge at n is left; the other nodes keep their attributes; with P
\* or S empty no edge is added.
C19_ReconstructFrame ==
    (IsCall("remove_node_reconstruct") /\ last.error = "none") =>
        LET n == last.arg
            P == Range(last.pre.pred[n]) \ {n}
            S == Range(last.pre.succ[n]) \ {n}
        IN  /\ nodes(tree) = nodes(last.pre) \ {n}
            /\ \A e \in edges(last.pre) : (e[1] # n /\ e[2] # n) => e \in edges(tree)
            /\ \A e \in edges(tree) \ edges(last.pre) : e[1] \in P /\ e[2] \in S
            /\ \A e \in edges(tree) : e[1] # n /\ e[2] # n
            /\ \A m \in Ids : n \notin Range(tree.succ[m]) \cup Range(tree.pred[m])
            /\ \A m \in nodes(tree) : tree.attr[m] = last.pre.attr[m]
            /\ (P = {} \/ S = {}) => edges(tree) \subseteq edges(last.pre)

C19_Witness ==
    /\ IsCall("remove_node_reconstruct")
    /\ last.error = "none"
    /\ edges(tree) \ edges(last.pre) # {}
    /\ \E e \in edges(last.pre) : e[1] # last.arg /\ e[2] # last.arg

\* C17: right after insert_wiki_tables every row (child_id, parent_id) of
\* category_edges has both ids in the categories table: a subcategory link
\* from a page that is no known category, or to a name no category bears,
\* leaves no row.
C17_EdgeEndpointsAreCategories ==
    db_last.op = "insert_wiki_tables" =>
        \A e \in category_edges :
            e[1] \in category_ids(categories) /\ e[2] \in category_ids(categories)

\* C15: however an iteration of stream_lines ends (the stream exhausted, a
\* read or decompression error part-way, the consumer pulling no more),
\* the file object or HTTP response is closed: at once when the generator
\* itself ends, and in the end when the consumer leaves it.
C15_HandleReleased ==
    /\ [](stream.gen \in {"finished", "raised", "closed"} => stream.raw # "open")
    /\ (consumer \in {"stopped", "done"}) ~> (stream.raw # "open")

C15_Witness ==
    /\ consumer = "stopped"
    /\ stream.gen = "closed"
    /\ stream.raw = "closed"
    /\ stream.gz = "closed"
    /\ stream.position >= 1

\* The rows of the shape the statement names: seven fields, the first an
\* integer, the second a quoted string, the last 'page' or 'subcat'.
NamedShape(row) ==
    /\ Len(row) = 7
    /\ row[1].type = "int"
    /\ row[2].type = "str"
    /\ row[7] \in {StringValue(<<"page">>), StringValue(<<"subcat">>)}

QuotedMiddle(row) == \A i \in 3..6 : row[i].type = "str"

RecordOf(row) ==
    CategoryLinksEntry(int(row[1].text), literal_eval(row[2].text),
                       row[7] = StringValue(<<"page">>))

RecordsOf(rows) == [k \in DOMAIN rows |-> RecordOf(rows[k])]

\* C16 as stated: every row of a line with an integer first field, a
\* quoted-string second field and 'page' or 'subcat' last, whatever its four
\* middle fields (the integers 0 too), yields exactly one record, with
\* from_id the first field, to_name the unquoted second and is_article
\* true exactly for 'page'.
C16_AnyMiddleFields ==
    (stream.gen = "suspended") =>
        hits = RecordsOf(SelectSeq(line, NamedShape))

\* C16, amended: the rows that yield a record, exactly one each, are those
\* of that shape whose four middle fields are quoted strings as well; a row
\* with integer middle fields, as (5,'Bar',0,0,0,0,'page'), yields none.
C16_QuotedMiddleFields ==
    (stream.gen = "suspended") =>
        hits = RecordsOf(SelectSeq(line, LAMBDA row : NamedShape(row) /\ QuotedMiddle(row)))

C16_Witness ==
    /\ stream.gen = "suspended"
    /\ Len(line) = 2
    /\ NamedShape(line[1]) /\ ~QuotedMiddle(line[1])
    /\ NamedShape(line[2]) /\ QuotedMiddle(line[2])
    /\ hits = <<[cl_from |-> 12, cl_to |-> <<"B", "'", "r">>, is_article |-> TRUE]>>

====
